---- MODULE Spec2Model ----
(***************************************************************************)
(* A model of lib/ec2metadata/__init__.py: the EC2Metadata class, its      *)
(* construction (endpoint location, token request, discovery walk) and its *)
(* public methods get, get_meta_data_options, get_available_api_versions   *)
(* and set_api_version, together with the metadata service it talks to.    *)
(*                                                                         *)
(* Strings.  A path, a listing line or an option name is kept as Python's  *)
(* s.split('/') list, each element of which is kept as its split('-')      *)
(* list of hyphen-free words (the empty element is <<>>):                  *)
(*     "meta-data/a/"  is  << <<"meta","data">>, <<"a">>, <<>> >>          *)
(*     "a-mac"         is  << <<"a","mac">> >>                             *)
(* so that split('/'), '-'.join, + and string equality are computed, not   *)
(* assumed.  A response body is kept as its list of lines, "" being <<>>.  *)
(***************************************************************************)
EXTENDS Integers, Sequences, FiniteSets, TLC

\* ------------------------------------------------------------ bounds
\* longest listing of a root category, in lines
MaxLines == 2
\* longest listing of a sub-directory, in lines
MaxSubLines == 1
\* most listing lines in the whole tree of one API version
MaxEntries == 4
\* most listing lines in the trees of all API versions together, where the
\* trees of the versions differ
MaxJoint == 2
\* most lines of the public-keys listing
MaxKeys == 2

\* ------------------------------------------------------------ strings
E == <<>>
EmptyStr == << E >>
Front(s) == SubSeq(s, 1, Len(s) - 1)
Last(s) == s[Len(s)]
Word(w) == << <<w>> >>

\* s[-1] == '/' for a string s
EndsWithSlash(s) == Len(s) >= 2 /\ Last(s) = E

\* path + item, for a path that ends in '/' (every path the walk is called
\* with does: the root categories do, and so does path + item for a
\* directory item)
Plus(path, item) ==
    IF Last(path) = E THEN Front(path) \o item ELSE Front(path) \o << Last(path) \o Head(item) >> \o Tail(item)

IPV6_ADDR == "fd00:ec2::254"
IPV4_ADDR == "169.254.169.254"
DEFAULT_API == "2008-02-01"
LATER_API == "2016-09-02"
Versions == {DEFAULT_API, LATER_API}

DYNAMIC == << <<"dynamic">>, E >>
META_DATA == << <<"meta", "data">>, E >>
PUBLIC_KEYS == << <<"public", "keys">> >>
PUBLIC_KEYS_DIR == << <<"public", "keys">>, E >>
PUBLIC_KEYS_PATH == << <<"meta", "data">>, <<"public", "keys">> >>
USER_DATA == << <<"user", "data">> >>

\* self.data_categories
data_categories == << DYNAMIC, META_DATA >>

\* ------------------------------------------------------------ the service
\* A reply of the service: ok = FALSE is a transport failure (URLError, which
\* includes every HTTP error status), else body is the content.
Fail == [ok |-> FALSE, body |-> <<>>]
Ok(b) == [ok |-> TRUE, body |-> b]

SeqsUpTo(S, n) == UNION {[1..k -> S] : k \in 0..n}

MAC == Word("mac")
SUB == << <<"a">>, E >>
RootItems == {MAC, SUB, PUBLIC_KEYS_DIR}
SubItems == {MAC, PUBLIC_KEYS_DIR, EmptyStr}
RootDirs == {DYNAMIC, META_DATA}
SubDirs == {Plus(r, SUB) : r \in RootDirs}
DirPaths == RootDirs \cup SubDirs

Lists(resp, item) == resp.ok /\ \E i \in 1..Len(resp.body) : resp.body[i] = item

\* A root category as the service may serve it: its listing (of one line at
\* least, when it can be fetched) and the listing of its sub-directory.  A
\* sub-directory that the listing does not name does not exist; one that it
\* names may still fail to be fetched, or be empty.
Branches ==
    {b \in [root : {Fail} \cup {Ok(l) : l \in SeqsUpTo(RootItems, MaxLines) \ {<<>>}},
            sub : {Fail} \cup {Ok(l) : l \in SeqsUpTo(SubItems, MaxSubLines)}] :
        b.sub.ok => Lists(b.root, SUB)}
BranchLines(b) == Len(b.root.body) + Len(b.sub.body)
MkTree(d, m) ==
    [p \in DirPaths |->
        IF p = DYNAMIC THEN d.root ELSE IF p = META_DATA THEN m.root
        ELSE IF p = Plus(DYNAMIC, SUB) THEN d.sub ELSE m.sub]
Lines(t) ==
    LET n(p) == Len(t[p].body)
    IN n(DYNAMIC) + n(META_DATA) + n(Plus(DYNAMIC, SUB)) + n(Plus(META_DATA, SUB))

\* The directory trees the service may serve under one API version
TreesUpTo(n) ==
    {MkTree(b[1], b[2]) : b \in {x \in Branches \X Branches : BranchLines(x[1]) + BranchLines(x[2]) <= n}}
Trees == TreesUpTo(MaxEntries)

\* The leaf paths of a tree: the lines without a trailing slash of the
\* listings the walk can reach.
LeafPaths(t) ==
    {Plus(p, t[p].body[i]) : <<p, i>> \in
        {q \in DirPaths \X (1..MaxLines) :
            /\ t[q[1]].ok /\ q[2] <= Len(t[q[1]].body)
            /\ t[q[1]].body[q[2]] # EmptyStr
            /\ ~EndsWithSlash(t[q[1]].body[q[2]])
            /\ q[1] \in SubDirs => t[Front(Front(q[1])) \o <<E>>].ok}}

\* The id field of a public-keys listing line and what int() and '%d' make
\* of it.
KeyIds == {"0", "1"}
int(keyid) == IF keyid = "0" THEN 0 ELSE 1
Fmt_d(n) == IF n = 0 THEN "0" ELSE "1"
KEY_LABEL == "my-key"
\* 'meta-data/public-keys/%d/openssh-key' % n
KeyUri(n) == PUBLIC_KEYS_PATH \o << <<Fmt_d(n)>>, <<"openssh", "key">> >>

\* The content of a leaf or of a key, by character; "\n" stands for any
\* whitespace.
Contents == {<<>>, <<"k">>, <<"k", "\n">>, <<"\n">>}

\* The token endpoint and the service root are outside every API version.
TOKEN_PATH == "latest/api/token"
ROOT == "/"
TTL_HEADER == "X-aws-ec2-metadata-token-ttl-seconds"
TOKEN_HEADER == "X-aws-ec2-metadata-token"
TTL == 21600

\* A request: the method, the address, the API version segment (or the
\* token endpoint, or the service root), the path below it and the headers.
Request(method, addr, api, uri, headers) ==
    [method |-> method, addr |-> addr, api |-> api, uri |-> uri, headers |-> headers]
\* A request as the log of a call keeps it: with the reply it got
Exchange(req, reply) ==
    [method |-> req.method, addr |-> req.addr, api |-> req.api, uri |-> req.uri,
     headers |-> req.headers, reply |-> reply]

\* What the service answers to a GET.  srv is the state of the service: the
\* tokens it accepts, its version listing, its trees, the public-keys
\* listing, the keys and the content of the leaves.
Serve(srv, req) ==
    IF ~(TOKEN_HEADER \in DOMAIN req.headers /\ req.headers[TOKEN_HEADER] \in srv.valid)
    THEN Fail
    ELSE IF req.api = ROOT THEN srv.root
    ELSE IF req.api \notin Versions THEN Fail
    ELSE IF req.uri \in DirPaths THEN srv.tree[req.api][req.uri]
    ELSE IF req.uri = PUBLIC_KEYS_PATH THEN srv.pk
    ELSE IF \E n \in 0..1 : req.uri = KeyUri(n) THEN srv.key[Last(Front(req.uri))[1]]
    ELSE IF req.uri = USER_DATA \/ req.uri \in LeafPaths(srv.tree[req.api]) THEN srv.leaf
    ELSE Fail

\* ------------------------------------------------------------ the instance
\* Python's None, and a str value
None == [none |-> TRUE, s |-> <<>>]
Str(b) == [none |-> FALSE, s |-> b]
\* not value
Not(value) == value.none \/ value.s = <<>>

\* A call in progress: the instance (self), the requests issued so far and
\* the exception that ended it ("" while none has).
Call(self, reqs, exc) == [self |-> self, reqs |-> reqs, exc |-> exc]

\* _get_request, had it sent no headers
_get_request_bare(self, uri) == Request("GET", self.addr, self.api, uri, <<>>)
\* EC2Metadata._get: the request, and the value it returns
_get_request(self, uri) == Request("GET", self.addr, self.api, uri, self.request_header)
_get(srv, self, uri) ==
    LET r == Serve(srv, _get_request(self, uri))
    IN IF r.ok THEN Str(r.body) ELSE None
\* the call's log, with the request of _get added
Sent(srv, c, uri) ==
    [c EXCEPT !.reqs = Append(@, Exchange(_get_request(c.self, uri), Serve(srv, _get_request(c.self, uri))))]

\* EC2Metadata._expand_name
_expand_name(path, endpoint) ==
    LET split == path
        path_elements == IF Last(split) = E THEN Front(split) ELSE split
        n == Len(path_elements)
    IN IF endpoint # EmptyStr
       THEN << Last(path_elements) \o Head(endpoint) >> \o Tail(endpoint)
       ELSE IF n >= 2 THEN << path_elements[n - 1] \o path_elements[n] >>
            ELSE << path_elements[n] >>

\* d[k] = v and del(d[k]) on a dict
SetItem(d, k, v) == [x \in DOMAIN d \cup {k} |-> IF x = k THEN v ELSE d[x]]
DelItem(d, k) == [x \in DOMAIN d \ {k} |-> d[x]]

\* EC2Metadata._add_meta_option, lines 65-78: a leaf item of the listing of
\* path; options is the list of keys taken when the listing's walk began.
AddLeaf(c, path, options, item) ==
    LET self == c.self
        map == self.meta_options_api_map
    IN IF item \notin options /\ \A i \in 1..Len(self.duplicate_names) : self.duplicate_names[i] # item
       THEN [c EXCEPT !.self.meta_options_api_map = SetItem(map, item, Plus(path, item))]
       ELSE IF item \in options
            THEN IF item \notin DOMAIN map
                 THEN [c EXCEPT !.self.duplicate_names = Append(@, item), !.exc = "KeyError"]
                 ELSE LET existing_path == map[item]
                          new_name == _expand_name(existing_path, EmptyStr)
                          option_name == _expand_name(path, item)
                      IN [c EXCEPT !.self.duplicate_names = Append(@, item),
                                   !.self.meta_options_api_map =
                                       SetItem(DelItem(SetItem(map, new_name, existing_path), item),
                                               option_name, Plus(path, item))]
            ELSE [c EXCEPT !.self.meta_options_api_map =
                               SetItem(map, _expand_name(path, item), Plus(path, item))]

\* Skipped, had the walk descended into every directory
SkippedNever(item) == FALSE
\* EC2Metadata._add_meta_option, lines 60-61: the entry the walk passes over
Skipped(item) == item = PUBLIC_KEYS_DIR

\* EC2Metadata._add_meta_option: the walk of the listing of path
RECURSIVE _add_meta_option(_, _, _), AddEntries(_, _, _, _, _)
_add_meta_option(srv, c, path) ==
    LET options == DOMAIN c.self.meta_options_api_map
        value == _get(srv, c.self, path)
        c1 == Sent(srv, c, path)
    IN IF Not(value) THEN c1 ELSE AddEntries(srv, c1, path, options, value.s)

AddEntries(srv, c, path, options, entries) ==
    IF entries = <<>> \/ c.exc # "" THEN c
    ELSE LET item == Head(entries)
             rest == Tail(entries)
         IN IF item = EmptyStr THEN AddEntries(srv, c, path, options, rest)
            ELSE IF Skipped(item) THEN AddEntries(srv, c, path, options, rest)
            ELSE IF EndsWithSlash(item)
                 THEN AddEntries(srv, _add_meta_option(srv, c, Plus(path, item)), path, options, rest)
                 ELSE AddEntries(srv, AddLeaf(c, path, options, item), path, options, rest)

\* _reset_meta_options_api_map, had it updated the map in place instead of
\* replacing it
_update_meta_options_api_map(self) ==
    [self EXCEPT !.meta_options_api_map =
        SetItem(SetItem(@, PUBLIC_KEYS, PUBLIC_KEYS_PATH), USER_DATA, USER_DATA)]

\* EC2Metadata._reset_meta_options_api_map
_reset_meta_options_api_map(self) ==
    [self EXCEPT !.meta_options_api_map =
        SetItem(SetItem(<<>>, PUBLIC_KEYS, PUBLIC_KEYS_PATH), USER_DATA, USER_DATA)]

\* EC2Metadata._set_meta_options
RECURSIVE SetMetaOptionsFrom(_, _, _)
SetMetaOptionsFrom(srv, c, i) ==
    IF i > Len(c.self.data_categories) \/ c.exc # "" THEN c
    ELSE SetMetaOptionsFrom(srv, _add_meta_option(srv, c, c.self.data_categories[i]), i + 1)
_set_meta_options(srv, c) == SetMetaOptionsFrom(srv, c, 1)

\* EC2Metadata._set_ipaddress: the address it leaves in self.addr and the
\* probes it makes.  net.has_ipv6 is socket.has_ipv6; net.probe[family][i]
\* is what the i-th create_connection to the family's address does: "ok",
\* "refused" (OSError) or "timeout" (socket.timeout, an OSError as well, so
\* that the except OSError clause, which comes first, takes it).
Families == << "ipv6_addr", "ipv4_addr" >>
metadata_ip_addrs == [ipv6_addr |-> IPV6_ADDR, ipv4_addr |-> IPV4_ADDR]
Outcomes == {"ok", "refused", "timeout"}
\* range(3)
Attempts == 3
NO_ADDR == "None"
Bracketed(ip_addr) == IF ip_addr = IPV6_ADDR THEN "[fd00:ec2::254]" ELSE ip_addr

RECURSIVE ProbeFrom(_, _, _, _)
ProbeFrom(net, f, i, acc) ==
    IF f > Len(Families) THEN acc
    ELSE IF i > Attempts THEN ProbeFrom(net, f + 1, 1, acc)
    ELSE LET ip_family == Families[f]
             ip_addr == metadata_ip_addrs[ip_family]
             outcome == net.probe[ip_family][i]
             probed == Append(acc.probes, [addr |-> ip_addr, outcome |-> outcome])
         IN IF outcome = "ok"
            THEN ProbeFrom(net, f, i + 1,
                           [addr |-> IF ip_family = "ipv6_addr" THEN Bracketed(ip_addr) ELSE ip_addr,
                            probes |-> probed])
            ELSE ProbeFrom(net, f + 1, 1, [acc EXCEPT !.probes = probed])

_set_ipaddress(net) ==
    IF ~net.has_ipv6
    THEN [addr |-> metadata_ip_addrs["ipv4_addr"], probes |-> <<>>]
    ELSE ProbeFrom(net, 1, 1, [addr |-> NO_ADDR, probes |-> <<>>])

\* EC2Metadata._set_api_header: the PUT to the token endpoint
TokenRequest(addr) ==
    Request("PUT", addr, TOKEN_PATH, EmptyStr, [h \in {TTL_HEADER} |-> TTL])
\* the service issues the next token
NextToken(srv) == srv.issued + 1
Issue(srv) == [srv EXCEPT !.issued = NextToken(srv), !.valid = @ \cup {NextToken(srv)}]
\* _set_api_header, had it fallen back to requests without a token
_set_api_header_legacy(net, srv, c) ==
    LET reply == IF net.token_ok THEN Ok(NextToken(srv)) ELSE Fail
        c1 == [c EXCEPT !.reqs = Append(@, Exchange(TokenRequest(c.self.addr), reply))]
    IN IF ~net.token_ok
       THEN [c1 EXCEPT !.self.request_header = <<>>]
       ELSE [c1 EXCEPT !.self.request_header = [h \in {TOKEN_HEADER} |-> NextToken(srv)]]
_set_api_header(net, srv, c) ==
    LET reply == IF net.token_ok THEN Ok(NextToken(srv)) ELSE Fail
        c1 == [c EXCEPT !.reqs = Append(@, Exchange(TokenRequest(c.self.addr), reply))]
    IN IF ~net.token_ok
       THEN [c1 EXCEPT !.exc = "EC2MetadataError"]
       ELSE [c1 EXCEPT !.self.request_header = [h \in {TOKEN_HEADER} |-> NextToken(srv)]]

\* EC2Metadata.__init__
NoInstance ==
    [api |-> "", data_categories |-> <<>>, duplicate_names |-> <<>>, addr |-> NO_ADDR,
     meta_options_api_map |-> <<>>, request_header |-> <<>>]
__init__(net, srv, api) ==
    LET self0 == [NoInstance EXCEPT !.api = api, !.data_categories = data_categories,
                                    !.addr = _set_ipaddress(net).addr]
        c0 == Call(self0, <<>>, "")
        c1 == _set_api_header(net, srv, c0)
        srv1 == IF net.token_ok THEN Issue(srv) ELSE srv
    IN IF self0.addr = NO_ADDR THEN [c0 EXCEPT !.exc = "EC2MetadataError"]
       ELSE IF c1.exc # "" THEN c1
       ELSE _set_meta_options(srv1, [c1 EXCEPT !.self = _reset_meta_options_api_map(@)])

\* str.rstrip
RECURSIVE rstrip(_)
rstrip(s) == IF s # <<>> /\ Last(s) = "\n" THEN rstrip(Front(s)) ELSE s

\* What a call returns: Python's None, a str, a list, or an API version
RetNone == [t |-> "None"]
RetStr(b) == [t |-> "str", v |-> b]
RetList(l) == [t |-> "list", v |-> l]
Ret(value) == IF value.none THEN RetNone ELSE RetStr(value.s)

\* EC2Metadata.get, lines 172-177: the keys of the listing's lines
RECURSIVE GetKeys(_, _, _, _)
GetKeys(srv, c, keyids, public_keys) ==
    IF keyids = <<>> THEN [c |-> c, ret |-> RetList(public_keys)]
    ELSE LET uri == KeyUri(int(Head(keyids)))
             value == _get(srv, c.self, uri)
             c1 == Sent(srv, c, uri)
         IN IF value.none
            THEN [c |-> [c1 EXCEPT !.exc = "AttributeError"], ret |-> RetNone]
            ELSE GetKeys(srv, c1, Tail(keyids), Append(public_keys, rstrip(value.s)))

\* Lookup, had it searched the static entries only
LookupStatic(self, metaopt) ==
    IF metaopt = PUBLIC_KEYS THEN Str(PUBLIC_KEYS_PATH)
    ELSE IF metaopt = USER_DATA THEN Str(USER_DATA) ELSE None

\* EC2Metadata.get, line 162: self.meta_options_api_map.get(metaopt, None)
Lookup(self, metaopt) ==
    IF metaopt \in DOMAIN self.meta_options_api_map
    THEN Str(self.meta_options_api_map[metaopt]) ELSE None
\* not path, for the path Lookup found ('' is the only falsy str)
NotPath(path) == path.none \/ path.s = EmptyStr

\* EC2Metadata.get
get(srv, self, metaopt) ==
    LET map == self.meta_options_api_map
        c == Call(self, <<>>, "")
    IN IF NotPath(Lookup(self, metaopt))
       THEN [c |-> [c EXCEPT !.exc = "EC2MetadataError"], ret |-> RetNone]
       ELSE IF metaopt = PUBLIC_KEYS
            THEN LET data == _get(srv, self, PUBLIC_KEYS_PATH)
                     c1 == Sent(srv, c, PUBLIC_KEYS_PATH)
                 IN IF Not(data) THEN [c |-> c1, ret |-> RetList(<<>>)]
                    ELSE GetKeys(srv, c1, [i \in 1..Len(data.s) |-> data.s[i][1]], <<>>)
            ELSE [c |-> Sent(srv, c, map[metaopt]),
                  ret |-> Ret(_get(srv, self, map[metaopt]))]

\* The order of str on option names (which hold no '/'): by word, the
\* hyphen being below every letter and digit.
WordOrder == << "a", "data", "dynamic", "keys", "mac", "meta", "nope", "public", "user" >>
Rank(w) == CHOOSE i \in 1..Len(WordOrder) : WordOrder[i] = w
RECURSIVE LessWords(_, _)
LessWords(a, b) ==
    IF b = <<>> THEN FALSE
    ELSE IF a = <<>> THEN TRUE
    ELSE IF a[1] = b[1] THEN LessWords(Tail(a), Tail(b))
    ELSE Rank(a[1]) < Rank(b[1])
Less(s, t) == LessWords(s[1], t[1])

\* list.sort
RECURSIVE sort(_)
sort(S) ==
    IF S = {} THEN <<>>
    ELSE LET least == CHOOSE x \in S : \A y \in S \ {x} : Less(x, y)
         IN << least >> \o sort(S \ {least})

\* get_meta_data_options, had it sorted in descending order
RECURSIVE Reverse(_)
Reverse(seq) == IF seq = <<>> THEN <<>> ELSE Append(Reverse(Tail(seq)), Head(seq))
get_meta_data_options_reversed(self) == Reverse(sort(DOMAIN self.meta_options_api_map))

\* EC2Metadata.get_meta_data_options
get_meta_data_options(self) == sort(DOMAIN self.meta_options_api_map)

\* The request for the service root and value.split('\n') of its body
RootRequest(self) == Request("GET", self.addr, ROOT, EmptyStr, self.request_header)
SplitVersions(body) == IF body = <<>> THEN << "" >> ELSE body

\* EC2Metadata.get_available_api_versions
get_available_api_versions(srv, self) ==
    LET r == Serve(srv, RootRequest(self))
        c == Call(self, << Exchange(RootRequest(self), r) >>, "")
    IN IF ~r.ok THEN [c |-> [c EXCEPT !.exc = "URLError"], ret |-> RetNone]
       ELSE [c |-> c, ret |-> RetList(SplitVersions(r.body))]

\* Falsy, had it tested for None only
IsNone(api_version) == api_version.none
\* Advertised, had the test been left out
AnyVersion(api_version, meta_apis) == TRUE

\* EC2Metadata.set_api_version, line 197: not api_version
Falsy(api_version) == api_version.none \/ api_version.s = ""
\* EC2Metadata.set_api_version, line 203: api_version in meta_apis
Advertised(api_version, meta_apis) == \E i \in 1..Len(meta_apis) : meta_apis[i] = api_version

\* EC2Metadata.set_api_version; api_version is None or a str
set_api_version(srv, self, api_version) ==
    LET c == Call(self, <<>>, "")
        r == Serve(srv, RootRequest(self))
        c1 == [c EXCEPT !.reqs = Append(@, Exchange(RootRequest(self), r))]
        meta_apis == SplitVersions(r.body)
    IN IF Falsy(api_version)
       THEN [c |-> c, ret |-> RetStr(self.api)]
       ELSE IF ~r.ok THEN [c |-> [c1 EXCEPT !.exc = "URLError"], ret |-> RetNone]
       ELSE IF ~Advertised(api_version.s, meta_apis)
            THEN [c |-> [c1 EXCEPT !.exc = "EC2MetadataError"], ret |-> RetNone]
            ELSE [c |-> _set_meta_options(srv,
                            [c1 EXCEPT !.self = _reset_meta_options_api_map([@ EXCEPT !.api = api_version.s])]),
                  ret |-> RetNone]

\* ------------------------------------------------------------ the system
\* service: the state of the metadata service; net: the network as the
\* constructor finds it; phase: "new" before construction, "live" with an
\* instance, "dead" when construction raised; self: the instance; last: the
\* most recent call, what it returned or raised and the requests it issued.
VARIABLES service, net, phase, self, last
vars == << service, net, phase, self, last >>

\* last also keeps the instance as it was before the call (before) and the
\* tokens the service accepted when the call was made (valid).
NoCall ==
    [op |-> "", arg |-> None, ret |-> RetNone, exc |-> "", reqs |-> <<>>, probes |-> <<>>,
     before |-> NoInstance, valid |-> {}]
Done(op, arg, c, ret) ==
    [op |-> op, arg |-> arg, ret |-> IF c.exc = "" THEN ret ELSE RetNone, exc |-> c.exc,
     reqs |-> c.reqs, probes |-> <<>>, before |-> self, valid |-> service.valid]

\* ---- what the service may hold
EmptyTree == [p \in DirPaths |-> IF p \in RootDirs THEN Ok(<<>>) ELSE Fail]
RootListings == {Ok(<< DEFAULT_API, LATER_API >>), Ok(<< DEFAULT_API >>)}
PkListings == {Fail} \cup {Ok(b) : b \in SeqsUpTo({<< k, KEY_LABEL >> : k \in KeyIds}, MaxKeys)}
KeyContents == [KeyIds -> {Fail} \cup {Ok(b) : b \in Contents}]
GoodNet == [has_ipv6 |-> TRUE, probe |-> [f \in {"ipv6_addr", "ipv4_addr"} |-> [i \in 1..Attempts |-> "ok"]],
            token_ok |-> TRUE]
Nets == [has_ipv6 : BOOLEAN, probe : [{"ipv6_addr", "ipv4_addr"} -> [1..Attempts -> Outcomes]],
         token_ok : BOOLEAN]
DefaultService ==
    [issued |-> 0, valid |-> {}, root |-> Ok(<< DEFAULT_API, LATER_API >>),
     tree |-> [v \in Versions |-> EmptyTree],
     pk |-> Ok(<< << "0", KEY_LABEL >> >>),
     key |-> [k \in KeyIds |-> Ok(<<"k", "\n">>)],
     leaf |-> Ok(<<"k">>)]

SmallTrees == TreesUpTo(MaxJoint)

Start == phase = "new" /\ self = NoInstance /\ last = NoCall

\* The trees of the API versions vary, within MaxJoint lines together.
Init ==
    /\ Start
    /\ net = GoodNet
    /\ \E t1 \in SmallTrees, t2 \in SmallTrees :
          /\ Lines(t1) + Lines(t2) <= MaxJoint
          /\ service = [DefaultService EXCEPT !.tree = [v \in Versions |-> IF v = DEFAULT_API THEN t1 ELSE t2]]

\* ---- the calls
ApiArgs == Versions
\* api_version=None, and a str
NoVersion == [none |-> TRUE, s |-> ""]
VersionArgs == {NoVersion} \cup {Str(v) : v \in {"", DEFAULT_API, LATER_API, "bogus"}}
NameArgs == {MAC, Word("nope")}

Construct ==
    /\ phase = "new"
    /\ \E api \in ApiArgs :
          LET c == __init__(net, service, api)
          IN /\ phase' = IF c.exc = "" THEN "live" ELSE "dead"
             /\ self' = c.self
             /\ service' = IF \E i \in 1..Len(c.reqs) : c.reqs[i].method = "PUT" /\ net.token_ok
                           THEN Issue(service) ELSE service
             /\ last' = [Done("__init__", Str(api), c, RetNone) EXCEPT !.probes = _set_ipaddress(net).probes]
    /\ UNCHANGED net

Get ==
    /\ phase = "live"
    /\ \E metaopt \in NameArgs \cup DOMAIN self.meta_options_api_map :
          LET r == get(service, self, metaopt)
          IN /\ self' = r.c.self
             /\ last' = Done("get", metaopt, r.c, r.ret)
    /\ UNCHANGED << service, net, phase >>

GetMetaDataOptions ==
    /\ phase = "live"
    /\ last' = Done("get_meta_data_options", None, Call(self, <<>>, ""), RetList(get_meta_data_options(self)))
    /\ UNCHANGED << service, net, phase, self >>

GetAvailableApiVersions ==
    /\ phase = "live"
    /\ LET r == get_available_api_versions(service, self)
       IN /\ self' = r.c.self
          /\ last' = Done("get_available_api_versions", None, r.c, r.ret)
    /\ UNCHANGED << service, net, phase >>

SetApiVersion ==
    /\ phase = "live"
    /\ \E api_version \in VersionArgs :
          LET r == set_api_version(service, self, api_version)
          IN /\ self' = r.c.self
             /\ last' = Done("set_api_version", api_version, r.c, r.ret)
    /\ UNCHANGED << service, net, phase >>

\* Time passes the TTL of the tokens issued so far.
TokenExpire ==
    /\ service.valid # {}
    /\ service' = [service EXCEPT !.valid = {}]
    /\ UNCHANGED << net, phase, self, last >>

Next ==
    \/ Construct
    \/ Get
    \/ GetMetaDataOptions
    \/ GetAvailableApiVersions
    \/ SetApiVersion
    \/ TokenExpire

Spec == Init /\ [][Next]_vars

\* One tree, of up to MaxEntries lines, under every API version.
InitWalk ==
    /\ Start
    /\ net = GoodNet
    /\ \E t \in Trees : service = [DefaultService EXCEPT !.tree = [v \in Versions |-> t]]
SpecWalk == InitWalk /\ [][Next]_vars

\* The version listing, the public-keys listing, the keys and the content
\* of the leaves vary.
ScenarioTree ==
    MkTree([root |-> Ok(<<>>), sub |-> Fail], [root |-> Ok(<< MAC, PUBLIC_KEYS_DIR >>), sub |-> Fail])
InitContent ==
    /\ Start
    /\ net = GoodNet
    /\ \E root \in RootListings, pk \in PkListings, key \in KeyContents,
          leaf \in {Fail} \cup {Ok(b) : b \in Contents} :
          service = [DefaultService EXCEPT !.tree = [v \in Versions |-> ScenarioTree],
                                           !.root = root, !.pk = pk, !.key = key, !.leaf = leaf]
SpecContent == InitContent /\ [][Next]_vars

\* The network varies: the probes of the addresses and the token request.
InitNet ==
    /\ Start
    /\ net \in Nets
    /\ service = [DefaultService EXCEPT !.tree = [v \in Versions |-> ScenarioTree]]
SpecNet == InitNet /\ [][Next]_vars

\* The default API version serves the leaf mac under both root categories;
\* the tree of the later version varies within MaxJoint lines.
CollidingTree ==
    MkTree([root |-> Ok(<< MAC >>), sub |-> Fail], [root |-> Ok(<< MAC >>), sub |-> Fail])
InitRebuild ==
    /\ Start
    /\ net = GoodNet
    /\ \E t \in SmallTrees :
          service = [DefaultService EXCEPT !.tree = [v \in Versions |-> IF v = DEFAULT_API THEN CollidingTree ELSE t]]
SpecRebuild == InitRebuild /\ [][Next]_vars

\* ------------------------------------------------------------ the claims
Elems(seq) == {seq[i] : i \in 1..Len(seq)}
StaticNames == {PUBLIC_KEYS, USER_DATA}
Discovered(map) == DOMAIN map \ StaticNames
\* the name of the leaf a path ends in
LeafName(path) == << Last(path) >>
Truthy(arg) == ~arg.none /\ arg.s # ""
\* the call passed the check of the version against the service's listing
Validated ==
    /\ last.op = "set_api_version" /\ Truthy(last.arg)
    /\ last.reqs # <<>> /\ last.reqs[1].reply.ok
    /\ last.arg.s \in Elems(SplitVersions(last.reqs[1].reply.body))

\* C1: get(name) raises the unknown-option error exactly when name is not
\* among the names get_meta_data_options() returns.
C1_UnknownIffNotListed ==
    last.op = "get" =>
        ((last.exc = "EC2MetadataError") <=> (last.arg \notin Elems(get_meta_data_options(self))))
\* a discovered name was listed and get resolved it
C1_Witness ==
    /\ last.op = "get" /\ last.exc = ""
    /\ last.arg \in Discovered(self.meta_options_api_map)
    /\ last.arg \in Elems(get_meta_data_options(self))

\* C2 (as claimed): after discovery, any two distinct leaf paths of the tree
\* that share a leaf name are both in the option map under two distinct
\* names, and the bare name is not a key of the map.
C2_CollisionLaw ==
    (last.op = "__init__" /\ last.exc # "EC2MetadataError") =>
        \A p, q \in LeafPaths(service.tree[self.api]) :
            (p # q /\ Last(p) = Last(q)) =>
                /\ last.exc = ""
                /\ LeafName(p) \notin DOMAIN self.meta_options_api_map
                /\ \E n1, n2 \in DOMAIN self.meta_options_api_map :
                      /\ n1 # n2
                      /\ self.meta_options_api_map[n1] = p
                      /\ self.meta_options_api_map[n2] = q

\* C3 (as claimed): get("public-keys") returns one key per line of the
\* listing, in order, each the content of the line's openssh-key path with
\* the trailing whitespace removed, and the empty list when the listing
\* yields no data, whatever the service answers.
C3_PublicKeys ==
    (last.op = "get" /\ last.arg = PUBLIC_KEYS /\ last.exc # "EC2MetadataError") =>
        /\ last.exc = ""
        /\ last.ret.t = "list"
        /\ LET listing == last.reqs[1].reply
           IN /\ last.reqs[1].uri = PUBLIC_KEYS_PATH
              /\ IF ~listing.ok \/ listing.body = <<>>
                 THEN last.ret.v = <<>> /\ Len(last.reqs) = 1
                 ELSE /\ Len(last.ret.v) = Len(listing.body)
                      /\ Len(last.reqs) = Len(listing.body) + 1
                      /\ \A i \in 1..Len(listing.body) :
                            /\ last.reqs[i + 1].uri =
                                  PUBLIC_KEYS_PATH \o << << listing.body[i][1] >>, <<"openssh", "key">> >>
                            /\ last.reqs[i + 1].reply.ok
                            /\ last.ret.v[i] = rstrip(last.reqs[i + 1].reply.body)
                            /\ (last.ret.v[i] = <<>> \/ Last(last.ret.v[i]) # "\n")

\* C4: a set_api_version(v) that passed the check of v against the
\* service's version listing leaves v active and an option map that holds
\* the two static entries and otherwise only paths listed as leaves under v;
\* every request after the check is a GET below v.
C4_Rebuilt ==
    Validated =>
        /\ self.api = last.arg.s
        /\ PUBLIC_KEYS \in DOMAIN self.meta_options_api_map
        /\ self.meta_options_api_map[PUBLIC_KEYS] = PUBLIC_KEYS_PATH
        /\ USER_DATA \in DOMAIN self.meta_options_api_map
        /\ self.meta_options_api_map[USER_DATA] = USER_DATA
        /\ \A n \in Discovered(self.meta_options_api_map) :
              self.meta_options_api_map[n] \in LeafPaths(service.tree[last.arg.s])
        /\ \A i \in 2..Len(last.reqs) :
              last.reqs[i].method = "GET" /\ last.reqs[i].api = last.arg.s
\* the version changed, an entry of the old version is gone and an entry of
\* the new one is there
C4_Witness ==
    /\ Validated /\ last.exc = ""
    /\ last.before.api # self.api
    /\ Discovered(self.meta_options_api_map) # {}
    /\ \E n \in Discovered(last.before.meta_options_api_map) :
          \A m \in DOMAIN self.meta_options_api_map :
              self.meta_options_api_map[m] # last.before.meta_options_api_map[n]

\* C5: set_api_version(v) with a non-empty v that the service's version
\* listing does not hold raises EC2MetadataError, changes nothing of the
\* instance and issues no request but the one for the listing.
C5_Unsupported ==
    (/\ last.op = "set_api_version" /\ Truthy(last.arg)
     /\ last.reqs # <<>> /\ last.reqs[1].reply.ok
     /\ last.arg.s \notin Elems(SplitVersions(last.reqs[1].reply.body))) =>
        /\ last.exc = "EC2MetadataError"
        /\ self = last.before
        /\ Len(last.reqs) = 1
        /\ last.reqs[1].api = ROOT
C5_Witness ==
    /\ last.op = "set_api_version" /\ Truthy(last.arg)
    /\ last.exc = "EC2MetadataError"
    /\ Discovered(self.meta_options_api_map) # {}
    /\ last.arg.s \notin Elems(SplitVersions(last.reqs[1].reply.body))

\* C6: set_api_version with None or '' returns the active version, issues
\* no request and changes nothing of the instance.
C6_NoOp ==
    (last.op = "set_api_version" /\ ~Truthy(last.arg)) =>
        /\ last.exc = ""
        /\ last.ret.t = "str" /\ last.ret.v = last.before.api
        /\ last.reqs = <<>>
        /\ self = last.before
C6_Witness ==
    /\ last.op = "set_api_version" /\ ~last.arg.none /\ last.arg.s = ""
    /\ last.ret.t = "str" /\ last.ret.v = LATER_API

\* C7: get and get_meta_data_options change nothing of the instance, and
\* get_meta_data_options returns the keys of the option map, each once, in
\* ascending order.
C7_ReadOnly ==
    /\ last.op \in {"get", "get_meta_data_options"} => self = last.before
    /\ last.op = "get_meta_data_options" =>
          /\ last.exc = "" /\ last.ret.t = "list"
          /\ Elems(last.ret.v) = DOMAIN self.meta_options_api_map
          /\ \A i, j \in 1..Len(last.ret.v) : i < j => Less(last.ret.v[i], last.ret.v[j])
C7_Witness ==
    /\ last.op = "get_meta_data_options"
    /\ Len(last.ret.v) >= 4
    /\ last.before.duplicate_names # <<>>

\* C8 (as claimed): a set_api_version that does not raise returns the API
\* version that is active when it returns.
C8_ReturnsActive ==
    (last.op = "set_api_version" /\ last.exc = "") =>
        (last.ret.t = "str" /\ last.ret.v = self.api)

\* C9 (as claimed): a fetch made when the token of the instance is no
\* longer accepted is preceded by exactly one PUT to the token endpoint and
\* carries the token that PUT returned.
C9_TokenRefresh ==
    (/\ last.op = "get" /\ last.exc # "EC2MetadataError"
     /\ last.before.request_header[TOKEN_HEADER] \notin last.valid) =>
        /\ Len(last.reqs) >= 2
        /\ last.reqs[1].method = "PUT" /\ last.reqs[1].api = TOKEN_PATH
        /\ \A i \in 2..Len(last.reqs) : last.reqs[i].method = "GET"
        /\ last.reqs[2].headers[TOKEN_HEADER] = last.reqs[1].reply.body
        /\ last.reqs[2].headers[TOKEN_HEADER] # last.before.request_header[TOKEN_HEADER]

\* C10: when the token request of the constructor fails, construction
\* raises EC2MetadataError and the instance issues nothing else: no GET,
\* no second token request, and no call follows.
TokenRequestFailed ==
    \E i \in 1..Len(last.reqs) : last.reqs[i].method = "PUT" /\ ~last.reqs[i].reply.ok
C10_TokenFailureIsFatal ==
    /\ (last.op = "__init__" /\ TokenRequestFailed) =>
          /\ last.exc = "EC2MetadataError"
          /\ phase = "dead"
          /\ Len(last.reqs) = 1
    /\ phase = "dead" => last.op = "__init__"
C10_Witness ==
    /\ phase = "dead" /\ TokenRequestFailed
    /\ self.addr # NO_ADDR

\* ---- endpoint location
\* the probes of the constructor that went to the address ip_addr
ProbesOf(ip_addr) == {i \in 1..Len(last.probes) : last.probes[i].addr = ip_addr}
Accepted(ip_addr) == \E i \in ProbesOf(ip_addr) : last.probes[i].outcome = "ok"
\* what a connection to the address of the family does, whenever it is tried
Reachable(ip_family) == \E i \in 1..Attempts : net.probe[ip_family][i] = "ok"

\* C11 (as claimed): with IPv6 capability the endpoint is the first of
\* fd00:ec2::254, 169.254.169.254 that accepted a probe: the bracketed IPv6
\* literal whenever the IPv6 address accepted one, also when the IPv4
\* address is reachable too.
C11_PrefersIPv6 ==
    (last.op = "__init__" /\ net.has_ipv6) =>
        /\ Accepted(IPV6_ADDR) => self.addr = "[fd00:ec2::254]"
        /\ (~Accepted(IPV6_ADDR) /\ Accepted(IPV4_ADDR)) => self.addr = IPV4_ADDR

\* C12 (as claimed): when no address the platform allows is reachable,
\* construction raises the error of endpoint location and issues no
\* request, with IPv6 capability and without.
C12_UnreachableIsFatal ==
    (/\ last.op = "__init__"
     /\ ~Reachable("ipv4_addr")
     /\ net.has_ipv6 => ~Reachable("ipv6_addr")) =>
        /\ last.exc = "EC2MetadataError"
        /\ phase = "dead"
        /\ self.addr = NO_ADDR
        /\ last.reqs = <<>>

\* C13 (as claimed): a refused probe is the last probe of its address; a
\* probe that timed out, when fewer than 3 probes of its address were made,
\* is followed by another probe of the same address.
C13_FailureKinds ==
    last.op = "__init__" =>
        \A i \in 1..Len(last.probes) :
            LET ip_addr == last.probes[i].addr
                made == Cardinality({j \in ProbesOf(ip_addr) : j <= i})
            IN /\ last.probes[i].outcome = "refused" => \A j \in ProbesOf(ip_addr) : j <= i
               /\ (last.probes[i].outcome = "timeout" /\ made < Attempts) =>
                     (i < Len(last.probes) /\ last.probes[i + 1].addr = ip_addr)

\* C14 (as claimed): a probe that succeeds is the last probe of endpoint
\* location and sets the endpoint the instance uses; no address is probed
\* more than 3 times.
C14_FirstSuccessAccepted ==
    last.op = "__init__" =>
        /\ \A i \in 1..Len(last.probes) :
              last.probes[i].outcome = "ok" =>
                  (i = Len(last.probes) /\ self.addr = Bracketed(last.probes[i].addr))
        /\ \A ip_addr \in {IPV6_ADDR, IPV4_ADDR} : Cardinality(ProbesOf(ip_addr)) <= Attempts

\* ---- the discovery walk
\* the instance a constructor call for the API version api would build now
Fresh(api) == __init__(GoodNet, service, api).self

\* C15 (as claimed): the discovery pass of a successful set_api_version(v)
\* starts from an empty duplicate-name set, so it leaves the option map and
\* the duplicate names of a freshly constructed instance for v.
C15_ResetOnRebuild ==
    (Validated /\ last.exc = "") =>
        /\ self.meta_options_api_map = Fresh(self.api).meta_options_api_map
        /\ self.duplicate_names = Fresh(self.api).duplicate_names

\* a call that ran the discovery walk: a constructor that got its token, or
\* a set_api_version that passed the check of the version
Walked ==
    \/ last.op = "__init__" /\ last.exc # "EC2MetadataError"
    \/ Validated

\* C16 (as claimed): a discovery pass that recorded a leaf name in the
\* duplicate-name set completes normally, the bare name is not a key of the
\* option map, and every leaf path that ends in the name is in the map.
C16_DuplicatesExpanded ==
    (last.op = "__init__" /\ last.exc # "EC2MetadataError") =>
        \A k \in 1..Len(self.duplicate_names) :
            LET item == self.duplicate_names[k]
            IN /\ last.exc = ""
               /\ item \notin DOMAIN self.meta_options_api_map
               /\ \A p \in LeafPaths(service.tree[self.api]) :
                     LeafName(p) = item =>
                         \E n \in DOMAIN self.meta_options_api_map : self.meta_options_api_map[n] = p

\* the path lies below a public-keys/ directory
UnderPublicKeys(path) == \E i \in 1..(Len(path) - 1) : path[i] = PUBLIC_KEYS[1]

\* C17: every path of the option map is the path of a static entry or the
\* full path of a leaf listed under a root category for the active version;
\* none ends in '/' and none lies below a public-keys/ directory; no call
\* that walks the tree fetches anything below a public-keys/ directory.
C17_PathInvariant ==
    /\ \A n \in DOMAIN self.meta_options_api_map :
          LET path == self.meta_options_api_map[n]
          IN /\ \/ path \in {PUBLIC_KEYS_PATH, USER_DATA}
                \/ path \in LeafPaths(service.tree[self.api])
             /\ Last(path) # E
             /\ ~UnderPublicKeys(path)
    /\ last.op \in {"__init__", "set_api_version"} =>
          \A i \in 1..Len(last.reqs) : ~UnderPublicKeys(last.reqs[i].uri)
\* a walk met public-keys/ in a listing, passed over it and found a leaf
C17_Witness ==
    /\ Walked /\ last.exc = ""
    /\ \E i \in 1..Len(last.reqs) :
          last.reqs[i].api \in Versions /\ Lists(last.reqs[i].reply, PUBLIC_KEYS_DIR)
    /\ Discovered(self.meta_options_api_map) # {}

\* the listing fetches of the last call, and those among them that failed
ListingFetches == {i \in 1..Len(last.reqs) : last.reqs[i].api \in Versions}
FailedFetches == {i \in ListingFetches : ~last.reqs[i].reply.ok}
Fetched(path) == \E j \in ListingFetches : last.reqs[j].uri = path

\* C18 (as claimed): a call that walks the tree and meets a listing fetch
\* that fails does not raise; it fetches every root category and every
\* directory that a fetched listing names, and every leaf that a fetched
\* listing names is a path of the option map.
C18_FailedListingNotFatal ==
    (Walked /\ FailedFetches # {}) =>
        /\ last.exc = ""
        /\ \A k \in 1..Len(data_categories) : Fetched(data_categories[k])
        /\ \A i \in ListingFetches \ FailedFetches :
              \A k \in 1..Len(last.reqs[i].reply.body) :
                  LET item == last.reqs[i].reply.body[k]
                      path == Plus(last.reqs[i].uri, item)
                  IN IF item = EmptyStr \/ item = PUBLIC_KEYS_DIR THEN TRUE
                     ELSE IF EndsWithSlash(item) THEN Fetched(path)
                     ELSE \E n \in DOMAIN self.meta_options_api_map :
                              self.meta_options_api_map[n] = path

\* a listing with its lines in another order, and the trees that differ
\* from t in the order of the lines of their listings only
Reorderings(resp) ==
    IF ~resp.ok \/ resp.body = <<>> THEN {resp}
    ELSE {Ok([i \in 1..Len(resp.body) |-> resp.body[f[i]]]) : f \in Permutations(1..Len(resp.body))}
ReorderedTrees(t) ==
    {t2 \in [DirPaths -> UNION {Reorderings(t[p]) : p \in DirPaths}] :
        \A p \in DirPaths : t2[p] \in Reorderings(t[p])}

\* C19 (as claimed): the option map a constructor builds does not depend on
\* the order of the lines within the listings: constructed against the same
\* tree with the lines of any listing reordered, it holds the same names
\* with the same paths.
C19_OrderIndependent ==
    (last.op = "__init__" /\ last.exc # "EC2MetadataError") =>
        \A t2 \in ReorderedTrees(service.tree[self.api]) :
            LET c == __init__(GoodNet, [service EXCEPT !.tree = [v \in Versions |-> t2]], self.api)
            IN /\ c.exc = last.exc
               /\ c.self.meta_options_api_map = self.meta_options_api_map

\* ---- the token
\* C20: every GET carries the request header of the instance, whose token
\* the service issued; the constructor's first request is the token PUT, to
\* the address a probe accepted, every GET of it follows that PUT and
\* carries the token the PUT returned; no later call changes the header.
C20_TokenOnEveryGet ==
    /\ \A i \in 1..Len(last.reqs) :
          last.reqs[i].method = "GET" =>
              /\ TOKEN_HEADER \in DOMAIN last.reqs[i].headers
              /\ last.reqs[i].headers = self.request_header
              /\ last.reqs[i].headers[TOKEN_HEADER] \in 1..service.issued
              /\ last.reqs[i].addr = self.addr
    /\ (last.op = "__init__" /\ last.reqs # <<>>) =>
          /\ last.reqs[1].method = "PUT" /\ last.reqs[1].addr = self.addr
          /\ net.has_ipv6 =>
                \E k \in 1..Len(last.probes) :
                    last.probes[k].outcome = "ok" /\ Bracketed(last.probes[k].addr) = self.addr
          /\ \A i \in 2..Len(last.reqs) :
                /\ last.reqs[i].method = "GET"
                /\ last.reqs[1].reply.ok
                /\ last.reqs[i].headers[TOKEN_HEADER] = last.reqs[1].reply.body
    /\ (last.op \notin {"", "__init__"}) =>
          /\ self.request_header = last.before.request_header
          /\ \A i \in 1..Len(last.reqs) : last.reqs[i].method = "GET"
\* the keys were fetched from the IPv6 endpoint, each GET with the token
C20_Witness ==
    /\ last.op = "get" /\ last.arg = PUBLIC_KEYS
    /\ Len(last.reqs) >= 2 /\ last.reqs[2].reply.ok
    /\ self.addr = "[fd00:ec2::254]"
    /\ last.reqs[2].headers[TOKEN_HEADER] = 1
====
